---- MODULE Spec2Model ----
(***************************************************************************)
(* Model of the Rise.ai OAuth sample server (src/server.js): the in-memory *)
(* installation store, the callback token exchange, the lazy token refresh *)
(* in getValidAccessToken, the passthrough API calls and the signed        *)
(* webhook endpoint with its double-encoded JSON envelope.                 *)
(***************************************************************************)
EXTENDS Integers, Sequences, FiniteSets, TLC

-----------------------------------------------------------------------------
(* JavaScript strings are sequences of symbols.  The structural symbols of *)
(* JSON are single characters; every other symbol stands for a run of      *)
(* ordinary characters that needs no escaping.                             *)

QUOTE == "\""
BSL == "\\"

(* JavaScript values as they appear in a decoded webhook.  v is always a   *)
(* sequence: the symbols of a string or number, the members of an object.  *)
Undefined == [t |-> "undefined", v |-> <<>>]
Null == [t |-> "null", v |-> <<>>]
Num(d) == [t |-> "num", v |-> <<d>>]
Str(s) == [t |-> "str", v |-> s]
Obj(members) == [t |-> "obj", v |-> members]

Digits == {"0", "1", "2"}

(* obj[key]: the value of the member named key, undefined when absent or   *)
(* when obj is a primitive.                                                *)
RECURSIVE Lookup(_, _, _)
Lookup(members, key, i) ==
  IF i > Len(members) THEN Undefined
  ELSE IF members[i][1] = key THEN members[i][2]
  ELSE Lookup(members, key, i + 1)

Get(val, key) == IF val.t = "obj" THEN Lookup(val.v, key, 1) ELSE Undefined

(* Assignment of a member while parsing: a repeated key keeps its place    *)
(* and takes the later value.                                              *)
Put(members, key, val) ==
  IF \E i \in 1..Len(members) : members[i][1] = key
  THEN [i \in 1..Len(members) |->
          IF members[i][1] = key THEN <<key, val>> ELSE members[i]]
  ELSE Append(members, <<key, val>>)

(* JSON.stringify's escaping of a string's content.                        *)
RECURSIVE Escape(_)
Escape(s) ==
  IF s = <<>> THEN <<>>
  ELSE (IF Head(s) \in {QUOTE, BSL} THEN <<BSL, Head(s)>> ELSE <<Head(s)>>)
       \o Escape(Tail(s))

(* JSON.stringify: members whose value is undefined are left out.          *)
RECURSIVE Stringify(_), StringifyMembers(_, _, _)
StringifyMembers(members, i, first) ==
  IF i > Len(members) THEN <<>>
  ELSE IF members[i][2].t = "undefined"
       THEN StringifyMembers(members, i + 1, first)
       ELSE (IF first THEN <<>> ELSE <<",">>)
            \o <<QUOTE>> \o Escape(members[i][1]) \o <<QUOTE, ":">>
            \o Stringify(members[i][2])
            \o StringifyMembers(members, i + 1, FALSE)

Stringify(val) ==
  CASE val.t = "str" -> <<QUOTE>> \o Escape(val.v) \o <<QUOTE>>
    [] val.t = "num" -> val.v
    [] val.t = "null" -> <<"null">>
    [] val.t = "obj" -> <<"{">> \o StringifyMembers(val.v, 1, TRUE) \o <<"}">>

(* JSON.parse as a recursive-descent parser; a result is                   *)
(* [ok, val, next] with next the position after the parsed value.          *)
ParseFail == [ok |-> FALSE, val |-> Undefined, next |-> 0]

RECURSIVE ParseStringBody(_, _, _)
ParseStringBody(s, i, acc) ==
  IF i > Len(s) THEN ParseFail
  ELSE IF s[i] = QUOTE THEN [ok |-> TRUE, val |-> Str(acc), next |-> i + 1]
  ELSE IF s[i] = BSL
       THEN IF i + 1 <= Len(s) /\ s[i + 1] \in {QUOTE, BSL}
            THEN ParseStringBody(s, i + 2, Append(acc, s[i + 1]))
            ELSE ParseFail
  ELSE ParseStringBody(s, i + 1, Append(acc, s[i]))

RECURSIVE ParseValue(_, _), ParseMembers(_, _, _)
ParseMembers(s, i, acc) ==
  IF i > Len(s) \/ s[i] # QUOTE THEN ParseFail
  ELSE LET k == ParseStringBody(s, i + 1, <<>>) IN
    IF ~k.ok \/ k.next > Len(s) \/ s[k.next] # ":" THEN ParseFail
    ELSE LET m == ParseValue(s, k.next + 1) IN
      IF ~m.ok \/ m.next > Len(s) THEN ParseFail
      ELSE IF s[m.next] = ","
           THEN ParseMembers(s, m.next + 1, Put(acc, k.val.v, m.val))
      ELSE IF s[m.next] = "}"
           THEN [ok |-> TRUE, val |-> Obj(Put(acc, k.val.v, m.val)),
                 next |-> m.next + 1]
      ELSE ParseFail

ParseValue(s, i) ==
  IF i > Len(s) THEN ParseFail
  ELSE IF s[i] = QUOTE THEN ParseStringBody(s, i + 1, <<>>)
  ELSE IF s[i] = "{"
       THEN IF i + 1 <= Len(s) /\ s[i + 1] = "}"
            THEN [ok |-> TRUE, val |-> Obj(<<>>), next |-> i + 2]
            ELSE ParseMembers(s, i + 1, <<>>)
  ELSE IF s[i] = "null" THEN [ok |-> TRUE, val |-> Null, next |-> i + 1]
  ELSE IF s[i] \in Digits THEN [ok |-> TRUE, val |-> Num(s[i]), next |-> i + 1]
  ELSE ParseFail

(* JSON.parse(text) of a string: the whole text must be one value.         *)
ParseText(s) ==
  LET r == ParseValue(s, 1) IN
    IF r.ok /\ r.next = Len(s) + 1 THEN r ELSE ParseFail

(* JSON.parse(x) of any JavaScript value: x is first converted to a        *)
(* string, so null and numbers parse to themselves, while undefined and    *)
(* objects ("[object Object]") throw.                                      *)
JSONParse(x) ==
  CASE x.t = "str" -> ParseText(x.v)
    [] x.t \in {"num", "null"} -> [ok |-> TRUE, val |-> x, next |-> 0]
    [] OTHER -> ParseFail

(* The property key a value is converted to in riseInstallations[x].       *)
PropertyKey(x) ==
  CASE x.t \in {"str", "num"} -> x.v
    [] x.t = "null" -> <<"null">>
    [] x.t = "undefined" -> <<"undefined">>
    [] OTHER -> <<"[object Object]">>

-----------------------------------------------------------------------------
(* Bounds of the model.                                                    *)

MaxTokens == 2      \* access tokens the token endpoint issues in a run
MaxTicks == 1       \* clock advances in a run
MaxInFlight == 1    \* requests awaiting an upstream response at once

(* Program constants.                                                      *)
MsPerSecond == 1000
TickMs == 1000

InstanceIds == {<<"a">>, <<"b">>}
Absent == <<>>                     \* a query parameter that is missing
ExpiresIn == {0, 1}                \* expires_in (seconds) of a token response
UpstreamFailures == {0, 503}  \* 0: no response at all (network error)

PrivateKeys == {"platform", "other"}
PublicKeyOf(k) == <<"public", k>>
CLIENT_PUBLIC_KEY == PublicKeyOf("platform")

-----------------------------------------------------------------------------
VARIABLES
  riseInstallations,  \* the in-memory store: instanceId -> installation
  now,                \* Date.now()
  inflight,           \* handlers suspended at an await, as a bag
  nextToken,          \* the next access token the token endpoint will issue
  limits,             \* the bounds of the run, fixed at its start
  before,             \* the store as it was before the step just taken
  inflightBefore,     \* the suspended handlers before the step just taken
  last,               \* what the step just taken did and answered
  lastCallback,       \* per instanceId: the record stored by the latest
                      \* successful callback since the latest AppRemoved
  tokenLog            \* per token issued, in order of issue: the instance_id
                      \* of the request it answered, its expires_in, and the
                      \* time the handler received it (kept in the runs that
                      \* log the token endpoint's responses)

vars == <<riseInstallations, now, inflight, nextToken, limits, before, inflightBefore,
          last, lastCallback, tokenLog>>

NoInstallation == [access_token |-> 0, expires_at |-> 0, created_at |-> [iso |-> 0]]

(* new Date().toISOString()                                                *)
ToISOString(t) == [iso |-> t]

(* Bags of suspended handlers.                                             *)
BagAdd(b, e) ==
  IF e \in DOMAIN b THEN [b EXCEPT ![e] = @ + 1]
  ELSE [x \in DOMAIN b \cup {e} |-> IF x = e THEN 1 ELSE b[x]]
BagRemove(b, e) ==
  IF b[e] > 1 THEN [b EXCEPT ![e] = @ - 1]
  ELSE [x \in DOMAIN b \ {e} |-> b[x]]
RECURSIVE BagSize(_)
BagSize(b) ==
  IF DOMAIN b = {} THEN 0
  ELSE LET e == CHOOSE x \in DOMAIN b : TRUE
       IN b[e] + BagSize([x \in DOMAIN b \ {e} |-> b[x]])

(* A suspended handler: where it awaits (the token request of a callback,  *)
(* the token request of a refresh, the remote API call), the instanceId it *)
(* serves, for a refresh the installation read before the await, the       *)
(* response once the token endpoint has issued it, and for a handler of    *)
(* the background gift-card job the call the job is at (gift card or       *)
(* recipient) with the gift card id it carries.                            *)
NoResponse == [access_token |-> 0, expires_in |-> 0]
NoJob == [stage |-> "none", giftCardId |-> 0]
Suspended(pc, id, installation) ==
  [pc |-> pc, id |-> id, installation |-> installation, response |-> NoResponse,
   job |-> NoJob]
JobFrame(pc, id, installation, job) ==
  [Suspended(pc, id, installation) EXCEPT !.job = job]

(* Faulty variant: the record is stored under every instanceId.            *)
Assign_AllKeys(store, id, rec) == [k \in DOMAIN store \cup {id} |-> rec]

(* riseInstallations[id] = rec                                             *)
Assign(store, id, rec) ==
  [k \in DOMAIN store \cup {id} |-> IF k = id THEN rec ELSE store[k]]

(* A webhook request body is either no JWT at all or a JWT with its claims *)
(* and the private key that signed it.                                     *)
NotAJwt == [kind |-> "garbage", claims |-> Undefined, signedWith |-> "none"]
JwtSign(claims, key) == [kind |-> "jwt", claims |-> claims, signedWith |-> key]

(* What a step did: the request answered (status 0: no answer yet), whether*)
(* it found a record for id, issued a token request (upstream), the token  *)
(* getValidAccessToken returned (ret), the Authorization header of the     *)
(* remote API call it issued (0: none), for a webhook the body delivered,  *)
(* the handler invoked and the decoded event, for a callback the code of   *)
(* the request, for an answered token request the response, and for the    *)
(* authorize endpoint the token of the request and the redirect target;    *)
(* for the workflow endpoint and the gift-card job the effects of the step *)
(* in the order of the code (trace), the status of the result object, the  *)
(* call of the job the step started, the id the answered call returned,    *)
(* and how the job ended if it did.                                        *)
Outcome(op, id, status, error) ==
  [op |-> op, id |-> id, status |-> status, error |-> error,
   found |-> FALSE, upstream |-> FALSE, ret |-> 0, authorization |-> 0,
   body |-> NotAJwt, handler |-> "none", decoded |-> Undefined, listing |-> {},
   code |-> Absent, response |-> NoResponse, token |-> Absent, redirect |-> <<>>,
   trace |-> <<>>, result |-> "", job |-> NoJob, returned |-> 0, ended |-> ""]

NoneStored == [access_token |-> 0, expires_at |-> 0]

Started ==
  /\ riseInstallations = <<>>
  /\ before = <<>>
  /\ inflightBefore = <<>>
  /\ tokenLog = <<>>
  /\ now = 0
  /\ inflight = <<>>
  /\ nextToken = 1
  /\ last = Outcome("listen", Absent, 0, "")
  /\ lastCallback = [id \in InstanceIds |-> NoneStored]

Init ==
  /\ Started
  /\ limits = [tokens |-> MaxTokens, ticks |-> MaxTicks, inflight |-> MaxInFlight,
               log |-> FALSE]

(* Runs with room for one more token and one more suspended handler: two   *)
(* token requests for one instanceId can be outstanding together.          *)
InitRace ==
  /\ Started
  /\ limits = [tokens |-> MaxTokens + 1, ticks |-> MaxTicks,
               inflight |-> MaxInFlight + 1, log |-> FALSE]

-----------------------------------------------------------------------------
(* The configuration, as texts of symbols, and the URLs derived from it.   *)
RISE_PLATFORM_URL == <<"https", ":", "/", "/", "platform">>
SERVER_BASE_URL == <<"https", ":", "/", "/", "app">>
CLIENT_ID == <<"client">>
REDIRECT_URI == SERVER_BASE_URL \o <<"/", "oauth", "/", "rise", "/", "callback">>
INSTALLER_URL == RISE_PLATFORM_URL \o <<"/", "installer">>

(* Faulty variant: the component is inserted as it is.                     *)
encodeURIComponent_Raw(text) == text

(* encodeURIComponent: reserved symbols are percent-encoded.               *)
PercentEncoded ==
  [sym \in {":", "/", "?", "&", "=", "%"} |->
     CASE sym = ":" -> "%3A" [] sym = "/" -> "%2F" [] sym = "?" -> "%3F"
       [] sym = "&" -> "%26" [] sym = "=" -> "%3D" [] sym = "%" -> "%25"]
encodeURIComponent(text) ==
  [i \in 1..Len(text) |->
     IF text[i] \in DOMAIN PercentEncoded THEN PercentEncoded[text[i]] ELSE text[i]]

(* The template literal of authUrl; the token is inserted as received.     *)
AuthUrl(token) ==
  INSTALLER_URL \o <<"/", "install", "?", "appId", "=">> \o CLIENT_ID
    \o <<"&", "redirectUrl", "=">> \o encodeURIComponent(REDIRECT_URI)
    \o <<"&", "token", "=">> \o token

(* The token query parameter of the requests to the authorize endpoint.    *)
InstallTokens == {Absent, <<"t1">>, <<"t2">>, <<"t", "&", "/">>}

(* GET /oauth/rise/authorize                                               *)
Authorize(token) ==
  /\ last' = IF token = Absent
             THEN [Outcome("authorize", Absent, 400, "missing_token")
                     EXCEPT !.token = token]
             ELSE [Outcome("authorize", Absent, 302, "")
                     EXCEPT !.token = token, !.redirect = AuthUrl(token)]
  /\ before' = riseInstallations /\ inflightBefore' = inflight
  /\ UNCHANGED <<riseInstallations, now, inflight, nextToken, lastCallback, limits, tokenLog>>

-----------------------------------------------------------------------------
(* The token endpoint's answer to a client_credentials request.            *)
TokenResponse(expires_in) == [access_token |-> nextToken, expires_in |-> expires_in]

(* The response a handler resumes with: the one the token endpoint issued  *)
(* for it earlier, or one issued now.                                      *)
ResponseFor(h, expires_in) ==
  IF h.response = NoResponse THEN TokenResponse(expires_in) ELSE h.response

(* The token endpoint can answer h: it still has a token to issue, or has  *)
(* issued the response already.                                            *)
CanAnswer(h, expires_in) ==
  IF h.response = NoResponse THEN nextToken <= limits.tokens
  ELSE expires_in = h.response.expires_in

NotReceived == 0 - 1
Logged(instance_id, response, received) ==
  [instance_id |-> instance_id, expires_in |-> response.expires_in, received |-> received]

(* The log once h has received its response at time t.                     *)
LogReceived(h, response, t) ==
  IF ~limits.log THEN tokenLog
  ELSE IF h.response = NoResponse
  THEN Append(tokenLog, Logged(h.id, response, t))
  ELSE [tokenLog EXCEPT ![response.access_token].received = t]

(* The token endpoint issues the response to the token request of h; the   *)
(* response is on its way to the handler.                                  *)
TokenIssued(h, expires_in) ==
  /\ h \in DOMAIN inflight /\ h.pc \in {"callback", "refresh"}
  /\ h.response = NoResponse
  /\ nextToken <= limits.tokens
  /\ LET response == TokenResponse(expires_in) IN
       /\ inflight' = BagAdd(BagRemove(inflight, h), [h EXCEPT !.response = response])
       /\ tokenLog' = IF limits.log
                      THEN Append(tokenLog, Logged(h.id, response, NotReceived))
                      ELSE tokenLog
       /\ last' = [Outcome("tokenIssued", h.id, 0, "") EXCEPT !.response = response]
  /\ nextToken' = nextToken + 1
  /\ before' = riseInstallations /\ inflightBefore' = inflight
  /\ UNCHANGED <<riseInstallations, now, lastCallback, limits>>

(* Faulty variant: expires_in is added to the clock without scaling.       *)
CallbackRecord_Seconds(response, t) ==
  [access_token |-> response.access_token,
   expires_at |-> t + response.expires_in,
   created_at |-> ToISOString(t)]

(* GET /oauth/rise/callback: the record stored after the token request.    *)
CallbackRecord(response, t) ==
  [access_token |-> response.access_token,
   expires_at |-> t + response.expires_in * MsPerSecond,
   created_at |-> ToISOString(t)]

(* Faulty variant: only the code is required.                              *)
MissingParameters_CodeOnly(code, instanceId) == code = Absent

(* !code || !instanceId                                                    *)
MissingParameters(code, instanceId) == code = Absent \/ instanceId = Absent

Callback(code, instanceId) ==
  /\ IF MissingParameters(code, instanceId)
     THEN /\ last' = [Outcome("callback", instanceId, 400, "missing_parameters")
                        EXCEPT !.code = code]
          /\ UNCHANGED inflight
     ELSE /\ BagSize(inflight) < limits.inflight
          /\ inflight' = BagAdd(inflight, Suspended("callback", instanceId, NoInstallation))
          /\ last' = [Outcome("callback", instanceId, 0, "")
                        EXCEPT !.upstream = TRUE, !.code = code]
  /\ before' = riseInstallations /\ inflightBefore' = inflight
  /\ UNCHANGED <<riseInstallations, now, nextToken, lastCallback, limits, tokenLog>>

(* The token request of a callback succeeds: the record is stored and the  *)
(* installation-complete page rendered.                                    *)
CallbackTokenOk(h, expires_in) ==
  /\ h \in DOMAIN inflight /\ h.pc = "callback"
  /\ CanAnswer(h, expires_in)
  /\ LET response == ResponseFor(h, expires_in)
         rec == CallbackRecord(response, now) IN
       /\ tokenLog' = LogReceived(h, response, now)
       /\ riseInstallations' = Assign(riseInstallations, h.id, rec)
       /\ lastCallback' = [lastCallback EXCEPT ![h.id] =
            [access_token |-> rec.access_token, expires_at |-> rec.expires_at]]
       /\ last' = [Outcome("callbackStored", h.id, 200, "") EXCEPT !.response = response]
  /\ nextToken' = IF h.response = NoResponse THEN nextToken + 1 ELSE nextToken
  /\ inflight' = BagRemove(inflight, h)
  /\ before' = riseInstallations /\ inflightBefore' = inflight
  /\ UNCHANGED <<now, limits>>

(* Faulty variant: a failed exchange also discards the stored record.      *)
CallbackTokenFail_Cleanup(h) ==
  /\ h \in DOMAIN inflight /\ h.pc = "callback"
  /\ inflight' = BagRemove(inflight, h)
  /\ riseInstallations' = [k \in DOMAIN riseInstallations \ {h.id} |-> riseInstallations[k]]
  /\ last' = Outcome("callbackFailed", h.id, 500, "Installation Failed")
  /\ before' = riseInstallations /\ inflightBefore' = inflight
  /\ UNCHANGED <<now, nextToken, lastCallback, limits, tokenLog>>

(* Faulty variant: a failed exchange is posted again.                      *)
CallbackTokenFail_Retry(h) ==
  /\ h \in DOMAIN inflight /\ h.pc = "callback"
  /\ last' = [Outcome("callbackFailed", h.id, 500, "Installation Failed")
                EXCEPT !.upstream = TRUE]
  /\ before' = riseInstallations /\ inflightBefore' = inflight
  /\ UNCHANGED <<riseInstallations, now, inflight, nextToken, lastCallback, limits, tokenLog>>

(* The token request of a callback fails: the error page, status 500.      *)
CallbackTokenFail(h) ==
  /\ h \in DOMAIN inflight /\ h.pc = "callback"
  /\ inflight' = BagRemove(inflight, h)
  /\ last' = Outcome("callbackFailed", h.id, 500, "Installation Failed")
  /\ before' = riseInstallations /\ inflightBefore' = inflight
  /\ UNCHANGED <<riseInstallations, now, nextToken, lastCallback, limits, tokenLog>>

-----------------------------------------------------------------------------
(* Faulty variant: the expiry test with the boundary included.            *)
IsExpired_Inclusive(installation, t) == installation.expires_at <= t

(* getValidAccessToken: the expiry test.                                   *)
IsExpired(installation, t) == installation.expires_at < t

(* Faulty variant: the refreshed record keeps the old token.               *)
RefreshedRecord_KeepsToken(installation, response, t) ==
  [installation EXCEPT !.expires_at = t + response.expires_in * MsPerSecond]

(* Faulty variant: the refreshed record keeps the old expiry.              *)
RefreshedRecord_KeepsExpiry(installation, response, t) ==
  [installation EXCEPT !.access_token = response.access_token]

(* getValidAccessToken: the record written after a successful refresh,     *)
(* {...installation, access_token, expires_at} with installation the       *)
(* record read before the await.                                           *)
RefreshedRecord(installation, response, t) ==
  [installation EXCEPT
     !.access_token = response.access_token,
     !.expires_at = t + response.expires_in * MsPerSecond]

(* An error as handleApiError sees it: its message and, for a failed HTTP  *)
(* call, the status of the response (0 when there was none).               *)
NotFoundError == [message |-> "Installation not found", responseStatus |-> 0]
AxiosError(st) ==
  [message |-> IF st = 0 THEN "Network Error" ELSE "Request failed with status code",
   responseStatus |-> st]

(* error.message.includes('token')                                         *)
MessageIncludesToken(message) == message \in {"Invalid token", "jwt token expired"}

(* Faulty variant: every error is answered as a failed API call.           *)
handleApiError_Generic(error) ==
  [status |-> IF error.responseStatus # 0 THEN error.responseStatus ELSE 500,
   error |-> "api_call_failed"]

(* handleApiError: the status and error code of the JSON answer.           *)
handleApiError(error) ==
  IF error.message = "Installation not found"
  THEN [status |-> 404, error |-> "installation_not_found"]
  ELSE IF MessageIncludesToken(error.message)
  THEN [status |-> 401, error |-> "token_error"]
  ELSE [status |-> IF error.responseStatus # 0 THEN error.responseStatus ELSE 500,
        error |-> "api_call_failed"]

(* Faulty variant: the remote API call is sent without the token.          *)
ApiConfig_NoToken(accessToken) == [Authorization |-> 0]

(* makeRiseApiCall: the headers of the remote API call.                    *)
ApiConfig(accessToken) == [Authorization |-> accessToken]

(* A passthrough endpoint (GET /api/example/account/:instanceId and the    *)
(* like): makeRiseApiCall runs getValidAccessToken up to its first await.  *)
Passthrough(instanceId) ==
  /\ IF instanceId \notin DOMAIN riseInstallations
     THEN LET answer == handleApiError(NotFoundError) IN
          /\ last' = Outcome("getValidAccessToken", instanceId, answer.status, answer.error)
          /\ UNCHANGED inflight
     ELSE LET installation == riseInstallations[instanceId] IN
          /\ BagSize(inflight) < limits.inflight
          /\ IF IsExpired(installation, now)
             THEN /\ inflight' = BagAdd(inflight,
                        Suspended("refresh", instanceId, installation))
                  /\ last' = [Outcome("getValidAccessToken", instanceId, 0, "")
                                EXCEPT !.found = TRUE, !.upstream = TRUE]
             ELSE /\ inflight' = BagAdd(inflight,
                        Suspended("api", instanceId, NoInstallation))
                  /\ last' = [Outcome("getValidAccessToken", instanceId, 0, "")
                                EXCEPT !.found = TRUE,
                                       !.ret = installation.access_token,
                                       !.authorization =
                                          ApiConfig(installation.access_token).Authorization]
  /\ before' = riseInstallations /\ inflightBefore' = inflight
  /\ UNCHANGED <<riseInstallations, now, nextToken, lastCallback, limits, tokenLog>>

(* The token request of a refresh succeeds: the record is rewritten, the   *)
(* new token returned and the remote API call issued with it.              *)
RefreshOk(h, expires_in) ==
  /\ h \in DOMAIN inflight /\ h.pc = "refresh"
  /\ CanAnswer(h, expires_in)
  /\ LET response == ResponseFor(h, expires_in) IN
       /\ tokenLog' = LogReceived(h, response, now)
       /\ riseInstallations' =
            Assign(riseInstallations, h.id, RefreshedRecord(h.installation, response, now))
       /\ inflight' = BagAdd(BagRemove(inflight, h),
            Suspended("api", h.id, NoInstallation))
       /\ last' = [Outcome("refreshed", h.id, 0, "")
                     EXCEPT !.found = TRUE,
                            !.response = response,
                            !.ret = response.access_token,
                            !.authorization = ApiConfig(response.access_token).Authorization]
  /\ nextToken' = IF h.response = NoResponse THEN nextToken + 1 ELSE nextToken
  /\ before' = riseInstallations /\ inflightBefore' = inflight
  /\ UNCHANGED <<now, lastCallback, limits>>

(* Faulty variant: a failed refresh evicts the stale record.               *)
RefreshFail_Evicts(h, st) ==
  /\ h \in DOMAIN inflight /\ h.pc = "refresh"
  /\ inflight' = BagRemove(inflight, h)
  /\ riseInstallations' = [k \in DOMAIN riseInstallations \ {h.id} |-> riseInstallations[k]]
  /\ last' = Outcome("refreshFailed", h.id, 500, "api_call_failed")
  /\ before' = riseInstallations /\ inflightBefore' = inflight
  /\ UNCHANGED <<now, nextToken, lastCallback, limits, tokenLog>>

(* The token request of a refresh fails: axios throws, getValidAccessToken *)
(* and makeRiseApiCall propagate, the endpoint answers via handleApiError. *)
RefreshFail(h, st) ==
  /\ h \in DOMAIN inflight /\ h.pc = "refresh"
  /\ inflight' = BagRemove(inflight, h)
  /\ LET answer == handleApiError(AxiosError(st)) IN
       last' = Outcome("refreshFailed", h.id, answer.status, answer.error)
  /\ before' = riseInstallations /\ inflightBefore' = inflight
  /\ UNCHANGED <<riseInstallations, now, nextToken, lastCallback, limits, tokenLog>>

(* Faulty variant: the answer of the remote API call is handled only when  *)
(* nothing else awaits an upstream response.                               *)
ApiOk_Serialized(h) ==
  /\ h \in DOMAIN inflight /\ h.pc = "api"
  /\ BagSize(inflight) = 1
  /\ inflight' = BagRemove(inflight, h)
  /\ last' = Outcome("apiAnswered", h.id, 200, "")
  /\ before' = riseInstallations /\ inflightBefore' = inflight
  /\ UNCHANGED <<riseInstallations, now, nextToken, lastCallback, limits, tokenLog>>

(* The remote API call of a passthrough endpoint returns.                  *)
ApiOk(h) ==
  /\ h \in DOMAIN inflight /\ h.pc = "api"
  /\ inflight' = BagRemove(inflight, h)
  /\ last' = Outcome("apiAnswered", h.id, 200, "")
  /\ before' = riseInstallations /\ inflightBefore' = inflight
  /\ UNCHANGED <<riseInstallations, now, nextToken, lastCallback, limits, tokenLog>>

ApiFail(h, st) ==
  /\ h \in DOMAIN inflight /\ h.pc = "api"
  /\ inflight' = BagRemove(inflight, h)
  /\ LET answer == handleApiError(AxiosError(st)) IN
       last' = Outcome("apiFailed", h.id, answer.status, answer.error)
  /\ before' = riseInstallations /\ inflightBefore' = inflight
  /\ UNCHANGED <<riseInstallations, now, nextToken, lastCallback, limits, tokenLog>>

(* GET /api/installations: the listing with its computed is_expired flag.  *)
Listing(store, t) ==
  {[instanceId |-> id,
    created_at |-> store[id].created_at,
    expires_at |-> ToISOString(store[id].expires_at),
    is_expired |-> store[id].expires_at < t] : id \in DOMAIN store}

ListInstallations ==
  /\ last' = [Outcome("installations", Absent, 200, "")
                EXCEPT !.listing = Listing(riseInstallations, now)]
  /\ before' = riseInstallations /\ inflightBefore' = inflight
  /\ UNCHANGED <<riseInstallations, now, inflight, nextToken, lastCallback, limits, tokenLog>>

-----------------------------------------------------------------------------
(* The webhook endpoint.                                                   *)

(* Faulty variant: the token is decoded without checking its signature.    *)
verifyJWT_DecodeOnly(token) ==
  IF token.kind = "jwt"
  THEN [ok |-> TRUE, payload |-> token.claims]
  ELSE [ok |-> FALSE, payload |-> Undefined]

(* jwt.verify(token, CLIENT_PUBLIC_KEY) inside verifyJWT: the claims, or   *)
(* 'Invalid JWT signature' thrown.                                         *)
verifyJWT(token) ==
  IF token.kind = "jwt" /\ PublicKeyOf(token.signedWith) = CLIENT_PUBLIC_KEY
  THEN [ok |-> TRUE, payload |-> token.claims]
  ELSE [ok |-> FALSE, payload |-> Undefined]

(* The envelope the platform sends: the event, with its payload serialized *)
(* into its data member, is itself serialized into the data claim.         *)
Member(name, val) == <<<<name>>, val>>
Envelope(eventType, instanceId, inner) ==
  Obj(<<Member("eventType", Str(eventType)),
        Member("instanceId", Str(instanceId)),
        Member("data", Str(Stringify(inner)))>>)
Claims(event) == Obj(<<Member("data", Str(Stringify(event)))>>)
WebhookBody(eventType, instanceId, inner, key) ==
  JwtSign(Claims(Envelope(eventType, instanceId, inner)), key)

(* Faulty variant: event.data is taken as the payload without parsing it.  *)
DecodeWebhook_SingleParse(body) ==
  LET verified == verifyJWT(body)
      event == IF verified.ok THEN JSONParse(Get(verified.payload, <<"data">>))
               ELSE ParseFail
  IN [ok |-> verified.ok /\ event.ok,
      eventType |-> Get(event.val, <<"eventType">>),
      instanceId |-> Get(event.val, <<"instanceId">>),
      eventData |-> Get(event.val, <<"data">>)]

(* The try block's three decoding steps (verifyJWT, JSON.parse of          *)
(* payload.data, JSON.parse of event.data); any throw reaches the catch.   *)
DecodeWebhook(body) ==
  LET verified == verifyJWT(body)
      event == IF verified.ok THEN JSONParse(Get(verified.payload, <<"data">>))
               ELSE ParseFail
      eventData == IF event.ok THEN JSONParse(Get(event.val, <<"data">>))
                   ELSE ParseFail
  IN [ok |-> verified.ok /\ event.ok /\ eventData.ok,
      eventType |-> Get(event.val, <<"eventType">>),
      instanceId |-> Get(event.val, <<"instanceId">>),
      eventData |-> eventData.val]

(* Bodies delivered in the server's runs: unsigned, signed by a stranger,  *)
(* signed with an event whose data member does not parse, and well-formed  *)
(* events.                                                                 *)
Bodies ==
  {NotAJwt,
   WebhookBody(<<"AppRemoved">>, <<"a">>, Obj(<<>>), "other"),
   JwtSign(Claims(Obj(<<Member("eventType", Str(<<"AppRemoved">>)),
                        Member("instanceId", Str(<<"a">>)),
                        Member("data", Str(<<"{">>))>>)), "platform"),
   WebhookBody(<<"AppRemoved">>, <<"a">>, Obj(<<>>), "platform"),
   WebhookBody(<<"AppRemoved">>, <<"b">>, Obj(<<>>), "platform"),
   WebhookBody(<<"AppInstalled">>, <<"a">>, Obj(<<>>), "platform"),
   WebhookBody(<<"Other">>, <<"b">>, Null, "platform")}

(* Bodies for the decoding round trip: every event type, instanceId and    *)
(* payload below, signed with either key.  The strings carry quotes,       *)
(* backslashes and braces; the payloads are JSON values of every kind.     *)
RoundTripEventTypes ==
  {<<"AppRemoved">>, <<"AppInstalled">>, <<"Other">>, <<"App", QUOTE, BSL>>}
RoundTripInstanceIds == {<<"a">>, <<"b">>, <<"{", BSL, QUOTE, "}">>}
RoundTripPayloads ==
  {Null, Num("1"), Str(<<>>), Str(<<"s", QUOTE, BSL, "{", ":">>), Obj(<<>>),
   Obj(<<Member("k", Str(<<QUOTE>>)), Member("n", Num("2"))>>),
   Obj(<<Member("o", Obj(<<Member("d", Str(<<"null", BSL>>))>>)), Member("z", Null)>>)}
RoundTripBodies ==
  {WebhookBody(et, id, inner, key) :
     et \in RoundTripEventTypes, id \in RoundTripInstanceIds,
     inner \in RoundTripPayloads, key \in PrivateKeys}

(* The decoding of every body, computed once.                              *)
DecodedBodies == [body \in Bodies |-> DecodeWebhook(body)]
DecodedRoundTrip == [body \in RoundTripBodies |-> DecodeWebhook(body)]
Decoded(body) ==
  IF body \in Bodies THEN DecodedBodies[body] ELSE DecodedRoundTrip[body]

(* Faulty variant: the whole store is emptied.                             *)
handleAppRemoval_ClearsAll(store, instanceId) == <<>>

(* delete riseInstallations[instanceId]                                    *)
handleAppRemoval(store, instanceId) ==
  [k \in DOMAIN store \ {PropertyKey(instanceId)} |-> store[k]]

(* Faulty variant: the installation hook removes the record.               *)
handleAppInstallation_Deletes(store, instanceId) == handleAppRemoval(store, instanceId)

(* handleAppInstallation only logs.                                        *)
handleAppInstallation(store, instanceId) == store

(* The switch on event.eventType: the handler invoked and the store after. *)
Dispatch(store, eventType, instanceId) ==
  IF eventType = Str(<<"AppRemoved">>)
  THEN [handler |-> "handleAppRemoval", store |-> handleAppRemoval(store, instanceId)]
  ELSE IF eventType = Str(<<"AppInstalled">>)
  THEN [handler |-> "handleAppInstallation",
        store |-> handleAppInstallation(store, instanceId)]
  ELSE [handler |-> "none", store |-> store]

(* The status and error code answered for a decoded / undecodable body.    *)
WebhookAnswer(decodedOk) ==
  IF decodedOk THEN [status |-> 200, error |-> ""]
  ELSE [status |-> 400, error |-> "webhook_verification_failed"]

(* POST /rise/webhooks                                                     *)
Webhook(body) ==
  LET d == Decoded(body)
      answer == WebhookAnswer(d.ok)
      done == IF d.ok THEN Dispatch(riseInstallations, d.eventType, d.instanceId)
              ELSE [handler |-> "none", store |-> riseInstallations]
      key == PropertyKey(d.instanceId)
  IN /\ riseInstallations' = done.store
     /\ lastCallback' =
          IF done.handler = "handleAppRemoval" /\ key \in InstanceIds
          THEN [lastCallback EXCEPT ![key] = NoneStored]
          ELSE lastCallback
     /\ last' = [Outcome("webhook", IF d.ok THEN key ELSE Absent, answer.status, answer.error)
                   EXCEPT !.body = body,
                          !.found = d.ok /\ key \in DOMAIN riseInstallations,
                          !.handler = done.handler,
                          !.decoded = IF d.ok
                                      THEN Obj(<<Member("eventType", d.eventType),
                                                 Member("instanceId", d.instanceId),
                                                 Member("eventData", d.eventData)>>)
                                      ELSE Undefined]
     /\ before' = riseInstallations /\ inflightBefore' = inflight
     /\ UNCHANGED <<now, inflight, nextToken, limits, tokenLog>>

-----------------------------------------------------------------------------
(* The workflow invocation endpoint and the background gift-card job.      *)

GIFT_CARD_ACTION == <<"rise_test_application-create_giftcard_v1">>

(* Destructuring or reading a property of undefined or null throws.        *)
Nullish(val) == val.t \in {"undefined", "null"}

(* The claims of an invocation: data is an object, not a text.             *)
InvocationClaims(actionKey, metadata) ==
  Obj(<<Member("data",
          Obj(<<Member("request", Obj(<<Member("actionKey", Str(actionKey))>>)),
                Member("metadata", metadata)>>))>>)
Metadata(instanceId) == Obj(<<Member("instanceId", Str(instanceId))>>)

(* Faulty variant: the invocation is decoded without verifying it.         *)
DecodeInvocation_Unverified(body) ==
  LET data == Get(body.claims, <<"data">>)
      request == Get(data, <<"request">>)
  IN [ok |-> body.kind = "jwt" /\ ~Nullish(data) /\ ~Nullish(request),
      actionKey |-> Get(request, <<"actionKey">>),
      metadata |-> Get(data, <<"metadata">>)]

(* verifyJWT, the destructuring of payload.data and request.actionKey; any *)
(* throw reaches the catch.                                                *)
DecodeInvocation(body) ==
  LET verified == verifyJWT(body)
      data == Get(verified.payload, <<"data">>)
      request == Get(data, <<"request">>)
  IN [ok |-> verified.ok /\ ~Nullish(data) /\ ~Nullish(request),
      actionKey |-> Get(request, <<"actionKey">>),
      metadata |-> Get(data, <<"metadata">>)]

(* Bodies delivered to the workflow endpoint: unsigned, signed by a        *)
(* stranger, signed without data, another action key, the gift-card action *)
(* for each instanceId, and the gift-card action without metadata.         *)
InvokeBodies ==
  {NotAJwt,
   JwtSign(InvocationClaims(GIFT_CARD_ACTION, Metadata(<<"a">>)), "other"),
   JwtSign(Obj(<<>>), "platform"),
   JwtSign(InvocationClaims(<<"other-action">>, Metadata(<<"a">>)), "platform"),
   JwtSign(InvocationClaims(GIFT_CARD_ACTION, Metadata(<<"a">>)), "platform"),
   JwtSign(InvocationClaims(GIFT_CARD_ACTION, Metadata(<<"b">>)), "platform"),
   JwtSign(InvocationClaims(GIFT_CARD_ACTION, Undefined), "platform")}

(* The decoding of every body, computed once.                              *)
DecodedInvocations == [body \in InvokeBodies |-> DecodeInvocation(body)]

(* handleWorkflowInvocation: the status of the result object.              *)
handleWorkflowInvocation(actionKey) ==
  IF actionKey = Str(GIFT_CARD_ACTION) THEN "accepted" ELSE "error"

(* request.actionKey === 'rise_test_application-create_giftcard_v1'        *)
StartsGiftCardJob(actionKey) == actionKey = Str(GIFT_CARD_ACTION)

(* makeRiseApiCall inside the job, up to its first await that leaves the   *)
(* process: getValidAccessToken throws (no record), posts a token request  *)
(* (expired) or returns the stored token, with which the call is issued.   *)
JobCall(store, t, id, job) ==
  IF id \notin DOMAIN store
  THEN [effect |-> "throw", frame |-> JobFrame("none", id, NoInstallation, job),
        authorization |-> 0]
  ELSE IF IsExpired(store[id], t)
  THEN [effect |-> "tokenRequest", frame |-> JobFrame("jobRefresh", id, store[id], job),
        authorization |-> 0]
  ELSE [effect |-> "apiCall", frame |-> JobFrame("jobApi", id, NoInstallation, job),
        authorization |-> ApiConfig(store[id].access_token).Authorization]

(* The suspended handlers after a call of the job: one more unless it threw.*)
AfterJobCall(bag, call) ==
  IF call.effect = "throw" THEN bag ELSE BagAdd(bag, call.frame)

(* handleCreateGiftCardAsync up to its first call: the destructuring of    *)
(* metadata throws when it is undefined or null.                           *)
GiftCardJob(store, t, metadata) ==
  IF Nullish(metadata)
  THEN [effect |-> "throw",
        frame |-> JobFrame("none", Absent, NoInstallation, NoJob),
        authorization |-> 0]
  ELSE JobCall(store, t, PropertyKey(Get(metadata, <<"instanceId">>)),
               [stage |-> "giftcard", giftCardId |-> 0])

(* Faulty variant: the job is started before the response is sent.         *)
InvocationTrace_JobFirst(startsJob, effect) ==
  IF startsJob THEN <<"job", effect, "respond">> ELSE <<"respond">>

(* The effects of an accepted invocation in the order of the code:         *)
(* res.status(200).json, then the call of handleCreateGiftCardAsync and    *)
(* what the job does up to its first await.                                *)
InvocationTrace(startsJob, effect) ==
  IF startsJob THEN <<"respond", "job", effect>> ELSE <<"respond">>

(* POST /rise/workflows/actions/v1/invoke                                  *)
Invoke(body) ==
  LET d == DecodedInvocations[body]
      startsJob == d.ok /\ StartsGiftCardJob(d.actionKey)
      call == GiftCardJob(riseInstallations, now, d.metadata)
  IN /\ IF ~d.ok
        THEN /\ last' = [Outcome("invoke", Absent, 400, "invocation_failed")
                           EXCEPT !.body = body]
             /\ UNCHANGED inflight
        ELSE /\ startsJob /\ call.effect # "throw" => BagSize(inflight) < limits.inflight
             /\ inflight' = IF startsJob THEN AfterJobCall(inflight, call) ELSE inflight
             /\ last' = [Outcome("invoke", IF startsJob THEN call.frame.id ELSE Absent, 200, "")
                           EXCEPT !.body = body,
                                  !.result = handleWorkflowInvocation(d.actionKey),
                                  !.trace = InvocationTrace(startsJob, call.effect),
                                  !.upstream = startsJob /\ call.effect = "tokenRequest",
                                  !.authorization = IF startsJob THEN call.authorization ELSE 0,
                                  !.job = IF startsJob THEN call.frame.job ELSE NoJob,
                                  !.ended = IF startsJob /\ call.effect = "throw"
                                            THEN "failed" ELSE ""]
     /\ before' = riseInstallations /\ inflightBefore' = inflight
     /\ UNCHANGED <<riseInstallations, now, nextToken, lastCallback, limits, tokenLog>>

(* The token request of the job's getValidAccessToken succeeds: the record *)
(* is rewritten and the job's call issued with the new token.              *)
JobRefreshOk(h, expires_in) ==
  /\ h \in DOMAIN inflight /\ h.pc = "jobRefresh"
  /\ CanAnswer(h, expires_in)
  /\ LET response == ResponseFor(h, expires_in) IN
       /\ tokenLog' = LogReceived(h, response, now)
       /\ riseInstallations' =
            Assign(riseInstallations, h.id, RefreshedRecord(h.installation, response, now))
       /\ inflight' = BagAdd(BagRemove(inflight, h),
            JobFrame("jobApi", h.id, NoInstallation, h.job))
       /\ last' = [Outcome("jobRefreshed", h.id, 0, "")
                     EXCEPT !.found = TRUE,
                            !.response = response,
                            !.ret = response.access_token,
                            !.authorization = ApiConfig(response.access_token).Authorization,
                            !.trace = <<"apiCall">>,
                            !.job = h.job]
  /\ nextToken' = IF h.response = NoResponse THEN nextToken + 1 ELSE nextToken
  /\ before' = riseInstallations /\ inflightBefore' = inflight
  /\ UNCHANGED <<now, lastCallback, limits>>

(* The job ends in failure: the rejection is logged by the .catch of the   *)
(* endpoint; nothing is answered.                                          *)
JobFailed(h) ==
  /\ inflight' = BagRemove(inflight, h)
  /\ last' = [Outcome("jobFailed", h.id, 0, "") EXCEPT !.job = h.job, !.ended = "failed"]
  /\ before' = riseInstallations /\ inflightBefore' = inflight
  /\ UNCHANGED <<riseInstallations, now, nextToken, lastCallback, limits, tokenLog>>

(* The token request or the remote API call of the job fails.              *)
JobRefreshFail(h) ==
  /\ h \in DOMAIN inflight /\ h.pc = "jobRefresh"
  /\ JobFailed(h)

JobApiFail(h) ==
  /\ h \in DOMAIN inflight /\ h.pc = "jobApi"
  /\ JobFailed(h)

(* Ids the platform returns for a created gift card or recipient; 0: the   *)
(* response carries no id.                                                 *)
ReturnedIds == {0, 7}

(* Faulty variant: the recipient is created whatever the gift-card call    *)
(* returned.                                                               *)
HasId_Unchecked(returned) == TRUE

(* !response.data?.giftCard?.id and !response.data?.recipient?.id          *)
HasId(returned) == returned # 0

(* A remote API call of the job is answered.  After the gift-card call the *)
(* job throws if no id was returned and otherwise makes the recipient call *)
(* with that id; after the recipient call it throws or ends in success.    *)
JobApiOk(h, returned) ==
  /\ h \in DOMAIN inflight /\ h.pc = "jobApi"
  /\ LET call == JobCall(riseInstallations, now, h.id,
                         [stage |-> "recipient", giftCardId |-> returned])
         rest == BagRemove(inflight, h)
     IN IF ~HasId(returned)
        THEN /\ inflight' = rest
             /\ last' = [Outcome("jobFailed", h.id, 0, "")
                           EXCEPT !.job = h.job, !.ended = "failed"]
        ELSE IF h.job.stage = "giftcard"
        THEN /\ inflight' = AfterJobCall(rest, call)
             /\ last' = [Outcome("jobStep", h.id, 0, "")
                           EXCEPT !.returned = returned,
                                  !.trace = <<call.effect>>,
                                  !.upstream = call.effect = "tokenRequest",
                                  !.authorization = call.authorization,
                                  !.job = call.frame.job,
                                  !.ended = IF call.effect = "throw" THEN "failed" ELSE ""]
        ELSE /\ inflight' = rest
             /\ last' = [Outcome("jobDone", h.id, 0, "")
                           EXCEPT !.returned = returned, !.job = h.job,
                                  !.ended = "success"]
  /\ before' = riseInstallations /\ inflightBefore' = inflight
  /\ UNCHANGED <<riseInstallations, now, nextToken, lastCallback, limits, tokenLog>>

-----------------------------------------------------------------------------
(* Faulty variant: records that have expired are purged as time passes.    *)
Tick_Purges ==
  /\ now < limits.ticks * TickMs
  /\ now' = now + TickMs
  /\ riseInstallations' =
       [k \in {x \in DOMAIN riseInstallations :
                  riseInstallations[x].expires_at >= now + TickMs} |-> riseInstallations[k]]
  /\ last' = Outcome("tick", Absent, 0, "")
  /\ before' = riseInstallations /\ inflightBefore' = inflight
  /\ UNCHANGED <<inflight, nextToken, lastCallback, limits, tokenLog>>

(* The passage of time.                                                    *)
Tick ==
  /\ now < limits.ticks * TickMs
  /\ now' = now + TickMs
  /\ last' = Outcome("tick", Absent, 0, "")
  /\ before' = riseInstallations /\ inflightBefore' = inflight
  /\ UNCHANGED <<riseInstallations, inflight, nextToken, lastCallback, limits, tokenLog>>

Next ==
  \/ \E code \in {Absent, <<"code">>}, id \in InstanceIds \cup {Absent} : Callback(code, id)
  \/ \E h \in DOMAIN inflight, e \in ExpiresIn : CallbackTokenOk(h, e)
  \/ \E h \in DOMAIN inflight : CallbackTokenFail(h)
  \/ \E id \in InstanceIds : Passthrough(id)
  \/ \E h \in DOMAIN inflight, e \in ExpiresIn : RefreshOk(h, e)
  \/ \E h \in DOMAIN inflight, st \in UpstreamFailures : RefreshFail(h, st)
  \/ \E h \in DOMAIN inflight : ApiOk(h)
  \/ \E h \in DOMAIN inflight, st \in UpstreamFailures : ApiFail(h, st)
  \/ ListInstallations
  \/ \E body \in Bodies : Webhook(body)
  \/ Tick

Spec == Init /\ [][Next]_vars

(* The webhook endpoint alone, fed the round-trip bodies.                  *)
NextRoundTrip == \E body \in RoundTripBodies : Webhook(body)

SpecRoundTrip == Init /\ [][NextRoundTrip]_vars

(* The server with two handlers suspended at once.                         *)
SpecRace == InitRace /\ [][Next]_vars

(* The OAuth flow: the authorize endpoint and the callback with its token  *)
(* request, as time passes.                                                *)
NextOAuth ==
  \/ \E token \in InstallTokens : Authorize(token)
  \/ \E code \in {Absent, <<"code">>}, id \in InstanceIds \cup {Absent} : Callback(code, id)
  \/ \E h \in DOMAIN inflight, e \in ExpiresIn : CallbackTokenOk(h, e)
  \/ \E h \in DOMAIN inflight : CallbackTokenFail(h)
  \/ Tick

SpecOAuth == Init /\ [][NextOAuth]_vars

(* Requests that overlap: the upstream calls succeed, and one more handler *)
(* than in Init may be suspended.                                          *)
InitOverlap ==
  /\ Started
  /\ limits = [tokens |-> MaxTokens, ticks |-> MaxTicks, inflight |-> MaxInFlight + 1,
               log |-> FALSE]

OverlapBodies ==
  {WebhookBody(<<"AppRemoved">>, <<"b">>, Obj(<<>>), "platform"),
   WebhookBody(<<"AppInstalled">>, <<"a">>, Obj(<<>>), "platform")}

NextOverlap ==
  \/ \E id \in InstanceIds : Callback(<<"code">>, id)
  \/ \E h \in DOMAIN inflight, e \in ExpiresIn : CallbackTokenOk(h, e)
  \/ \E id \in InstanceIds : Passthrough(id)
  \/ \E h \in DOMAIN inflight, e \in ExpiresIn : RefreshOk(h, e)
  \/ \E h \in DOMAIN inflight : ApiOk(h)
  \/ \E body \in OverlapBodies : Webhook(body)
  \/ Tick

SpecOverlap == InitOverlap /\ [][NextOverlap]_vars

(* The workflow endpoint and its background job, with the callback, the    *)
(* clock and AppRemoved around them.                                       *)
NextWorkflow ==
  \/ \E body \in InvokeBodies : Invoke(body)
  \/ \E h \in DOMAIN inflight, e \in ExpiresIn : JobRefreshOk(h, e)
  \/ \E h \in DOMAIN inflight : JobRefreshFail(h)
  \/ \E h \in DOMAIN inflight, returned \in ReturnedIds : JobApiOk(h, returned)
  \/ \E h \in DOMAIN inflight : JobApiFail(h)
  \/ \E id \in InstanceIds : Callback(<<"code">>, id)
  \/ \E h \in DOMAIN inflight, e \in ExpiresIn : CallbackTokenOk(h, e)
  \/ Webhook(WebhookBody(<<"AppRemoved">>, <<"a">>, Obj(<<>>), "platform"))
  \/ Tick

SpecWorkflow == Init /\ [][NextWorkflow]_vars

(* Overlapping requests with the token endpoint's responses logged; a      *)
(* response may be issued some time before its handler receives it.        *)
InitTokens ==
  /\ Started
  /\ limits = [tokens |-> MaxTokens, ticks |-> MaxTicks, inflight |-> MaxInFlight + 1,
               log |-> TRUE]

NextTokens ==
  \/ NextOverlap
  \/ \E h \in DOMAIN inflight, e \in ExpiresIn : TokenIssued(h, e)

SpecTokens == InitTokens /\ [][NextTokens]_vars

(* The same with as many suspended handlers as in Init.                    *)
InitLogged ==
  /\ Started
  /\ limits = [tokens |-> MaxTokens, ticks |-> MaxTicks, inflight |-> MaxInFlight,
               log |-> TRUE]

SpecLogged == InitLogged /\ [][NextTokens]_vars

-----------------------------------------------------------------------------
(* Properties.                                                             *)

(* Token requests of refreshes for id that are awaiting their answer.      *)
RefreshesInFlight(id) ==
  BagSize([h \in {x \in DOMAIN inflight : x.pc = "refresh" /\ x.id = id} |-> inflight[h]])

(* The body is a JWT signed with the private key of the configured public  *)
(* key.                                                                    *)
ValidlySigned(body) == body.kind = "jwt" /\ body.signedWith = "platform"

(* The body is the platform's envelope of an event of this type for id.    *)
EventBodies ==
  [eventType \in RoundTripEventTypes, id \in RoundTripInstanceIds |->
     {WebhookBody(eventType, id, inner, "platform") : inner \in RoundTripPayloads}]
IsEvent(body, eventType, id) == body \in EventBodies[eventType, id]

(* C1: concurrent getValidAccessToken calls for one instanceId whose token *)
(* has expired issue one token request between them: at no time are two    *)
(* refresh requests for the same instanceId outstanding.                   *)
C1_OneRefreshPerInstance ==
  \A id \in InstanceIds : RefreshesInFlight(id) <= 1

(* C2: while now has not passed the expiry E of the token T that the       *)
(* latest successful callback stored for id, and no AppRemoved for id came *)
(* since, getValidAccessToken(id) returns T without a token request.       *)
C2_CallbackTokenUntilExpiry ==
  (/\ last.op = "getValidAccessToken"
   /\ lastCallback[last.id] # NoneStored
   /\ now <= lastCallback[last.id].expires_at)
  => (last.ret = lastCallback[last.id].access_token /\ ~last.upstream)

(* C3 as stated: getValidAccessToken called with expires_at equal to the   *)
(* current time starts a refresh.                                          *)
C3_RefreshAtExpiryInstant ==
  (/\ last.op = "getValidAccessToken"
   /\ last.found
   /\ riseInstallations[last.id].expires_at = now)
  => last.upstream

(* C3 amended: getValidAccessToken called with expires_at equal to the     *)
(* current time returns the stored token and starts no refresh; a refresh  *)
(* starts exactly when expires_at is strictly before the current time.     *)
C3_ValidAtExpiryInstant ==
  (last.op = "getValidAccessToken" /\ last.found)
  => LET installation == riseInstallations[last.id] IN
       /\ installation.expires_at = now
            => (~last.upstream /\ last.ret = installation.access_token)
       /\ last.upstream <=> installation.expires_at < now

C3_Witness ==
  /\ last.op = "getValidAccessToken"
  /\ last.found
  /\ riseInstallations[last.id].expires_at = now
  /\ now > 0
  /\ last.ret = riseInstallations[last.id].access_token

(* C4: a record for id is in the store only if a callback token exchange   *)
(* for id succeeded after the latest processed AppRemoved for id.          *)
C4_RecordOnlyFromCallback ==
  \A id \in InstanceIds :
    id \in DOMAIN riseInstallations => lastCallback[id] # NoneStored

(* C5: a record leaves the store only in the step that processes a validly *)
(* signed AppRemoved event for the same instanceId.                        *)
C5_OnlyAppRemovedDeletes ==
  \A id \in DOMAIN before \ DOMAIN riseInstallations :
    /\ last.op = "webhook"
    /\ ValidlySigned(last.body)
    /\ IsEvent(last.body, <<"AppRemoved">>, id)

(* A record has just been removed while another one stays.                 *)
C5_Witness ==
  /\ <<"a">> \in DOMAIN before \ DOMAIN riseInstallations
  /\ <<"b">> \in DOMAIN riseInstallations

(* C6: processing an AppRemoved event for id leaves no record for id and   *)
(* answers 200 {received: true}; when id has no record (a second delivery, *)
(* or an id never installed) the store is left as it was.                  *)
C6_AppRemovedIdempotent ==
  \A id \in InstanceIds :
    (last.op = "webhook" /\ IsEvent(last.body, <<"AppRemoved">>, id))
      => (/\ id \notin DOMAIN riseInstallations
          /\ last.status = 200 /\ last.error = ""
          /\ id \notin DOMAIN before => riseInstallations = before)

(* A second delivery: the record of "a" was stored by a callback, removed  *)
(* by a first delivery, and the event has just been processed again while  *)
(* "b" is installed.                                                       *)
C6_Witness ==
  /\ last.op = "webhook"
  /\ IsEvent(last.body, <<"AppRemoved">>, <<"a">>)
  /\ <<"a">> \notin DOMAIN before
  /\ last.status = 200
  /\ nextToken > 2
  /\ <<"b">> \in DOMAIN riseInstallations

(* C7: a webhook body that is not a validly signed token is answered 400   *)
(* webhook_verification_failed, no event handler runs and the store is     *)
(* unchanged.                                                              *)
C7_UnsignedRejected ==
  (last.op = "webhook" /\ ~ValidlySigned(last.body))
    => (/\ last.status = 400
        /\ last.error = "webhook_verification_failed"
        /\ last.handler = "none"
        /\ riseInstallations = before)

(* A body signed with another key, naming an installed instanceId.         *)
C7_Witness ==
  /\ last.op = "webhook"
  /\ last.body = WebhookBody(<<"AppRemoved">>, <<"a">>, Obj(<<>>), "other")
  /\ <<"a">> \in DOMAIN riseInstallations
  /\ last.status = 400

(* C8: a webhook whose signature verifies is answered 200, whatever its    *)
(* payload; 400 is answered only when the signature does not verify.       *)
C8_VerifiedAlwaysAcknowledged ==
  last.op = "webhook"
    => (/\ ValidlySigned(last.body) => last.status = 200
        /\ last.status = 400 => ~ValidlySigned(last.body))

(* C9: a validly signed event of a type other than AppRemoved leaves the   *)
(* store unchanged.                                                        *)
C9_OtherEventsKeepStore ==
  (/\ last.op = "webhook"
   /\ \E et \in RoundTripEventTypes \ {<<"AppRemoved">>}, id \in InstanceIds :
        IsEvent(last.body, et, id))
    => riseInstallations = before

(* An AppInstalled event for an installed instanceId has been processed.   *)
C9_Witness ==
  /\ last.op = "webhook"
  /\ IsEvent(last.body, <<"AppInstalled">>, <<"a">>)
  /\ last.handler = "handleAppInstallation"
  /\ <<"a">> \in DOMAIN riseInstallations

(* C10: a body built from (eventType, instanceId, payload) by the double   *)
(* encoding and signed with the matching private key is decoded to exactly *)
(* that eventType, instanceId and payload; signed with another key it is   *)
(* rejected as an invalid signature.                                       *)
C10_WebhookRoundTrip ==
  \A et \in RoundTripEventTypes, id \in RoundTripInstanceIds,
     inner \in RoundTripPayloads, key \in PrivateKeys :
    (last.op = "webhook" /\ last.body = WebhookBody(et, id, inner, key))
      => IF key = "platform"
         THEN /\ last.status = 200
              /\ last.decoded = Obj(<<Member("eventType", Str(et)),
                                      Member("instanceId", Str(id)),
                                      Member("eventData", inner)>>)
         ELSE /\ last.status = 400
              /\ last.error = "webhook_verification_failed"
              /\ last.decoded = Undefined

(* A payload with a quoted string inside an object has been decoded.       *)
C10_Witness ==
  /\ last.op = "webhook"
  /\ last.status = 200
  /\ Get(last.decoded, <<"eventType">>) = Str(<<"App", QUOTE, BSL>>)
  /\ Get(Get(last.decoded, <<"eventData">>), <<"k">>) = Str(<<QUOTE>>)

(* The handler of this kind for id that was suspended before the step and  *)
(* is no longer after it.                                                  *)
Resumed(pc, id) ==
  {h \in DOMAIN inflightBefore :
     /\ h.pc = pc /\ h.id = id
     /\ (h \notin DOMAIN inflight \/ inflight[h] < inflightBefore[h])}

(* C11: when the token request of a refresh for id succeeds, the store     *)
(* holds under id the response's access_token with expires_at = time of    *)
(* the response + expires_in * 1000 once getValidAccessToken returns, and  *)
(* the token returned is the response's, not the expired one read before.  *)
C11_RefreshWritesBeforeReturn ==
  last.op = "refreshed"
    => /\ last.id \in DOMAIN riseInstallations
       /\ riseInstallations[last.id].access_token = last.response.access_token
       /\ riseInstallations[last.id].expires_at =
            now + last.response.expires_in * MsPerSecond
       /\ last.ret = last.response.access_token
       /\ last.authorization = last.response.access_token
       /\ \A h \in Resumed("refresh", last.id) :
            last.ret # h.installation.access_token

(* A refresh answered with expires_in = 1 after the clock advanced.        *)
C11_Witness ==
  /\ last.op = "refreshed"
  /\ now > 0
  /\ last.response.expires_in = 1
  /\ Resumed("refresh", last.id) # {}
  /\ last.ret = 2

(* C12: getValidAccessToken for an instanceId without a record is answered *)
(* 404 installation_not_found by the passthrough endpoint; no token        *)
(* request and no remote API call is issued and the store is unchanged.    *)
C12_NotFoundNoUpstream ==
  (last.op = "getValidAccessToken" /\ last.id \notin DOMAIN before)
    => /\ last.status = 404
       /\ last.error = "installation_not_found"
       /\ ~last.upstream
       /\ last.authorization = 0
       /\ inflight = inflightBefore
       /\ riseInstallations = before

(* The request names "b" while only "a" is installed.                      *)
C12_Witness ==
  /\ last.op = "getValidAccessToken"
  /\ last.id = <<"b">>
  /\ last.status = 404
  /\ DOMAIN riseInstallations = {<<"a">>}

(* C13: after a successful callback for instanceId answered with           *)
(* {access_token: T, expires_in: S} the store holds for instanceId the     *)
(* record with access_token = T and expires_at = time of the response +    *)
(* S * 1000, whatever it held before; every other instanceId has the       *)
(* record it had, or none as before.                                       *)
C13_CallbackStoresRecord ==
  last.op = "callbackStored"
    => /\ last.id \in DOMAIN riseInstallations
       /\ riseInstallations[last.id].access_token = last.response.access_token
       /\ riseInstallations[last.id].expires_at =
            now + last.response.expires_in * MsPerSecond
       /\ DOMAIN riseInstallations = DOMAIN before \cup {last.id}
       /\ \A id \in DOMAIN before \ {last.id} : riseInstallations[id] = before[id]

(* A second callback for the same instanceId replaced the first record.    *)
C13_Witness ==
  /\ last.op = "callbackStored"
  /\ last.id \in DOMAIN before
  /\ before[last.id].access_token = 1
  /\ riseInstallations[last.id].access_token = 2
  /\ last.response.expires_in = 1
  /\ riseInstallations[last.id].expires_at = TickMs + MsPerSecond

(* C14: a callback request without code or without instanceId is answered  *)
(* 400; no token request is issued and the store is unchanged.             *)
C14_MissingParameters ==
  (last.op = "callback" /\ (last.code = Absent \/ last.id = Absent))
    => /\ last.status = 400
       /\ last.error = "missing_parameters"
       /\ ~last.upstream
       /\ inflight = inflightBefore
       /\ riseInstallations = before

(* A callback with a code and no instanceId, while "a" is installed.       *)
C14_Witness ==
  /\ last.op = "callback"
  /\ last.code # Absent
  /\ last.id = Absent
  /\ last.status = 400
  /\ <<"a">> \in DOMAIN riseInstallations

(* C15: when the token request of a callback fails the callback answers    *)
(* 500 with the failure page, its handler ends without another token       *)
(* request, and the store is as it was, earlier record included.           *)
C15_CallbackFailureKeepsStore ==
  last.op = "callbackFailed"
    => /\ last.status = 500
       /\ last.error = "Installation Failed"
       /\ ~last.upstream
       /\ riseInstallations = before
       /\ \E h \in DOMAIN inflightBefore :
            /\ h.pc = "callback" /\ h.id = last.id
            /\ inflight = BagRemove(inflightBefore, h)

(* The exchange of a repeated callback failed; the earlier record stays.   *)
C15_Witness ==
  /\ last.op = "callbackFailed"
  /\ last.id \in DOMAIN riseInstallations
  /\ riseInstallations[last.id].access_token = 1
  /\ inflight = <<>>

(* C16: a failure of the token endpoint is answered with status 500 or     *)
(* 502, in the callback exchange and in a refresh started by a passthrough *)
(* endpoint alike.                                                         *)
C16_TokenEndpointFailure5xx ==
  last.op \in {"callbackFailed", "refreshFailed"} => last.status \in {500, 502}

(* C18: while the record of an instanceId exists its created_at does not   *)
(* change, neither by a repeated callback nor by a refresh.                *)
C18_CreatedAtFirstExchange ==
  \A id \in DOMAIN before \cap DOMAIN riseInstallations :
    riseInstallations[id].created_at = before[id].created_at

(* C19: the passage of time leaves the store as it is; a record changes or *)
(* leaves the store only in a step of getValidAccessToken, the callback or *)
(* AppRemoved for its instanceId; GET /api/installations lists a record    *)
(* whose expires_at is in the past with is_expired = true and leaves the   *)
(* store as it is.                                                         *)
C19_TimeAloneKeepsStore ==
  /\ last.op = "tick" => riseInstallations = before
  /\ \A id \in DOMAIN before :
       (id \notin DOMAIN riseInstallations \/ riseInstallations[id] # before[id])
         => /\ last.id = id
            /\ \/ last.op \in {"refreshed", "callbackStored"}
               \/ last.op = "webhook" /\ last.handler = "handleAppRemoval"
  /\ last.op = "installations"
       => /\ riseInstallations = before
          /\ Cardinality(last.listing) = Cardinality(DOMAIN riseInstallations)
          /\ \A id \in DOMAIN riseInstallations :
               riseInstallations[id].expires_at < now
                 => \E entry \in last.listing :
                      /\ entry.instanceId = id
                      /\ entry.is_expired
                      /\ entry.created_at = riseInstallations[id].created_at

(* A record that expired as the clock advanced has been listed.            *)
C19_Witness ==
  /\ last.op = "installations"
  /\ now > 0
  /\ \E entry \in last.listing : entry.is_expired /\ entry.instanceId = <<"a">>
  /\ riseInstallations[<<"a">>].expires_at < now

(* C17: the authorize endpoint answers a request without token with 400    *)
(* missing_token and no redirect; with a token it redirects to the         *)
(* installer URL built from the configuration and that token; either way   *)
(* the store is unchanged and no upstream request is issued.               *)
C17_AuthorizeRedirect ==
  last.op = "authorize"
    => /\ riseInstallations = before
       /\ inflight = inflightBefore
       /\ ~last.upstream /\ last.authorization = 0
       /\ IF last.token = Absent
          THEN last.status = 400 /\ last.error = "missing_token" /\ last.redirect = <<>>
          ELSE /\ last.status = 302
               /\ last.redirect =
                    <<"https", ":", "/", "/", "platform", "/", "installer", "/", "install",
                      "?", "appId", "=", "client", "&", "redirectUrl", "=",
                      "https", "%3A", "%2F", "%2F", "app", "%2F", "oauth", "%2F", "rise",
                      "%2F", "callback", "&", "token", "=">> \o last.token

(* A redirect answered while a record is stored, a callback awaits the     *)
(* token endpoint and the clock has advanced.                              *)
C17_Witness ==
  /\ last.op = "authorize"
  /\ last.status = 302
  /\ last.token = <<"t2">>
  /\ riseInstallations # <<>>
  /\ inflight # <<>>
  /\ now > 0

(* C20: while a handler awaits the token endpoint for one instanceId (the  *)
(* exchange of a callback or a refresh), a webhook can be processed, a     *)
(* request for another instanceId can be started, and a handler of another *)
(* instanceId whose upstream call is answered can run to its end.          *)
C20_UpstreamDoesNotBlock ==
  \A h \in DOMAIN inflight :
    h.pc \in {"callback", "refresh"}
      => /\ \A body \in OverlapBodies : ENABLED Webhook(body)
         /\ \A id \in InstanceIds \ {h.id} :
              /\ BagSize(inflight) < limits.inflight
                   => ENABLED Callback(<<"code">>, id) /\ ENABLED Passthrough(id)
              /\ \A g \in DOMAIN inflight :
                   g.id = id
                     => CASE g.pc = "api" -> ENABLED ApiOk(g)
                          [] g.pc = "callback" ->
                               nextToken <= limits.tokens => ENABLED CallbackTokenOk(g, 0)
                          [] g.pc = "refresh" ->
                               nextToken <= limits.tokens => ENABLED RefreshOk(g, 0)

(* The remote API call for "b" has been answered while the refresh for "a" *)
(* was, and still is, awaiting the token endpoint.                         *)
C20_Witness ==
  /\ last.op = "apiAnswered"
  /\ last.id = <<"b">>
  /\ \E h \in DOMAIN inflight \cap DOMAIN inflightBefore :
       h.pc = "refresh" /\ h.id = <<"a">>

(* Remote API calls awaiting their answer.                                 *)
ApiCalls(bag) ==
  BagSize([h \in {x \in DOMAIN bag : x.pc = "api"} |-> bag[h]])

(* C23: a passthrough endpoint issues its remote API call only in the step *)
(* in which getValidAccessToken returns a token, with exactly that token   *)
(* as Authorization header; when getValidAccessToken fails (no record, or  *)
(* the refresh fails) no remote API call is issued.                        *)
C23_ApiCallCarriesReturnedToken ==
  /\ ApiCalls(inflight) > ApiCalls(inflightBefore)
       => /\ last.op \in {"getValidAccessToken", "refreshed"}
          /\ last.ret # 0
          /\ last.authorization = last.ret
          /\ Suspended("api", last.id, NoInstallation) \in DOMAIN inflight
  /\ (last.op \in {"getValidAccessToken", "refreshed"} /\ last.ret # 0)
       => /\ last.authorization = last.ret
          /\ ApiCalls(inflight) = ApiCalls(inflightBefore) + 1
  /\ (last.op \in {"getValidAccessToken", "refreshFailed"} /\ last.status # 0)
       => /\ last.ret = 0 /\ last.authorization = 0
          /\ ApiCalls(inflight) = ApiCalls(inflightBefore)

(* The remote API call has just been issued with the token a refresh       *)
(* returned.                                                               *)
C23_Witness ==
  /\ last.op = "refreshed"
  /\ last.ret = 2
  /\ last.authorization = 2
  /\ ApiCalls(inflight) = 1 /\ ApiCalls(inflightBefore) = 0

(* C25: when a refresh writes the record of an instanceId that has a       *)
(* record, the created_at stored after the write is the created_at stored  *)
(* before it.                                                              *)
C25_RefreshKeepsCreatedAt ==
  (last.op = "refreshed" /\ last.id \in DOMAIN before)
    => riseInstallations[last.id].created_at = before[last.id].created_at

(* A later call attempts the refresh: getValidAccessToken(id) posts a      *)
(* token request.                                                          *)
RefreshAttempt(id) == Passthrough(id) /\ last'.upstream

(* C26: when the token request of a refresh fails, the endpoint answers    *)
(* with an error and issues no remote API call, the store is as it was,    *)
(* the record the refresh read is still expired, and a later               *)
(* getValidAccessToken for it posts a token request again.                 *)
C26_RefreshFailureKeepsRecord ==
  last.op = "refreshFailed"
    => /\ last.status >= 400
       /\ last.ret = 0
       /\ riseInstallations = before
       /\ \E h \in Resumed("refresh", last.id) :
            /\ inflight = BagRemove(inflightBefore, h)
            /\ IsExpired(h.installation, now)
            /\ (last.id \in DOMAIN riseInstallations
                  /\ riseInstallations[last.id] = h.installation
                  /\ BagSize(inflight) < limits.inflight)
                 => ENABLED RefreshAttempt(last.id)

(* A refresh has failed and the expired record is still stored.            *)
C26_Witness ==
  /\ last.op = "refreshFailed"
  /\ last.id \in DOMAIN riseInstallations
  /\ IsExpired(riseInstallations[last.id], now)
  /\ last.status = 503

(* Tokens the token endpoint issued in answer to requests for id, and the  *)
(* latest of them.                                                         *)
IssuedFor(id) == {n \in DOMAIN tokenLog : tokenLog[n].instance_id = id}
MostRecentlyIssued(id) ==
  CHOOSE n \in IssuedFor(id) : \A m \in IssuedFor(id) : m <= n

(* Token requests for id awaiting their response.                          *)
TokenRequests(id) ==
  {h \in DOMAIN inflight : h.pc \in {"callback", "refresh"} /\ h.id = id}

(* C24: whenever id has a record and no token request for id is            *)
(* outstanding, the stored access_token is the token the token endpoint    *)
(* issued most recently for id.                                            *)
C24_StoredTokenMostRecent ==
  \A id \in DOMAIN riseInstallations :
    TokenRequests(id) = {}
      => /\ IssuedFor(id) # {}
         /\ riseInstallations[id].access_token = MostRecentlyIssued(id)

ActionKeys ==
  [body \in InvokeBodies |->
     Get(Get(Get(body.claims, <<"data">>), <<"request">>), <<"actionKey">>)]
ActionKeyOf(body) == ActionKeys[body]

(* Handlers of the background job that are suspended.                      *)
JobFrames(bag) == {h \in DOMAIN bag : h.job # NoJob}

(* C21: an accepted invocation is answered 200 before anything of the      *)
(* background job happens; the job is started exactly for the gift-card    *)
(* action key; no step of the job, failure included, answers anything.     *)
C21_ResponseBeforeJob ==
  /\ (last.op = "invoke" /\ last.status = 200)
       => /\ last.trace[1] = "respond"
          /\ \A i \in DOMAIN last.trace : last.trace[i] = "respond" => i = 1
          /\ (\E i \in DOMAIN last.trace : last.trace[i] = "job")
               <=> ActionKeyOf(last.body) = Str(GIFT_CARD_ACTION)
          /\ ActionKeyOf(last.body) # Str(GIFT_CARD_ACTION)
               => /\ inflight = inflightBefore
                  /\ ~last.upstream /\ last.authorization = 0
  /\ JobFrames(inflight) \ JobFrames(inflightBefore) # {}
       => \/ last.op = "invoke" /\ ActionKeyOf(last.body) = Str(GIFT_CARD_ACTION)
          \/ last.op \in {"jobRefreshed", "jobStep"}
  /\ last.op \in {"jobRefreshed", "jobStep", "jobDone", "jobFailed"}
       => last.status = 0 /\ last.error = ""

(* The job of an accepted invocation has failed at its recipient call.     *)
C21_Witness ==
  /\ last.op = "jobFailed"
  /\ last.job.stage = "recipient"
  /\ last.status = 0
  /\ last.ended = "failed"

(* C22: an invocation whose body is not a validly signed token is answered *)
(* 400 invocation_failed; no job is started, no token request or remote    *)
(* API call is issued and the store is unchanged.                          *)
C22_UnverifiedInvocationRejected ==
  (last.op = "invoke" /\ ~ValidlySigned(last.body))
    => /\ last.status = 400
       /\ last.error = "invocation_failed"
       /\ last.trace = <<>>
       /\ ~last.upstream /\ last.authorization = 0
       /\ inflight = inflightBefore
       /\ riseInstallations = before

(* A gift-card invocation for an installed instanceId, signed with another *)
(* key.                                                                    *)
C22_Witness ==
  /\ last.op = "invoke"
  /\ last.body = JwtSign(InvocationClaims(GIFT_CARD_ACTION, Metadata(<<"a">>)), "other")
  /\ <<"a">> \in DOMAIN riseInstallations
  /\ last.status = 400

(* Handlers of the job that are at the recipient-creation call.            *)
RecipientFrames(bag) == {h \in DOMAIN bag : h.job.stage = "recipient"}

(* C29: the recipient-creation call is started only in the step in which   *)
(* the gift-card call returned an id, and carries that id; when the        *)
(* gift-card call fails or returns no id the job ends in failure and no    *)
(* recipient-creation call is started.                                     *)
C29_RecipientAfterGiftCard ==
  /\ \A h \in RecipientFrames(inflight) : h.job.giftCardId # 0
  /\ \A h \in RecipientFrames(inflight) \ RecipientFrames(inflightBefore) :
       \/ /\ last.op = "jobStep"
          /\ last.returned # 0
          /\ h.job.giftCardId = last.returned
          /\ \E g \in Resumed("jobApi", h.id) : g.job.stage = "giftcard"
       \/ /\ last.op = "jobRefreshed"
          /\ \E g \in Resumed("jobRefresh", h.id) : g.job = h.job
  /\ (last.op = "jobFailed" /\ last.job.stage = "giftcard")
       => /\ last.ended = "failed"
          /\ last.authorization = 0
          /\ RecipientFrames(inflight) = RecipientFrames(inflightBefore)

(* The recipient-creation call has been issued with the id the gift-card   *)
(* call returned.                                                          *)
C29_Witness ==
  /\ last.op = "jobStep"
  /\ last.returned = 7
  /\ last.trace = <<"apiCall">>
  /\ \E h \in RecipientFrames(inflight) : h.pc = "jobApi" /\ h.job.giftCardId = 7

====
